---- MODULE Spec2Model ----
(***************************************************************************)
(* Building specifications of globi (src/src/globi/models/tasks.py):       *)
(* MinimalBuildingSpec, its projection globi_spec, GloBIBuildingSpec, the   *)
(* memoised properties of a GloBIBuildingSpec instance and feature_dict.    *)
(*                                                                         *)
(* Units.  Lengths, heights and floor-to-floor heights are whole metres,    *)
(* areas whole square metres.  wwr is counted in tenths (10 is 1.0),        *)
(* exposed_basement_frac and the use fractions in hundredths (100 is 1.0),  *)
(* a rise-over-run ratio in twelfths (6 is 6/12) and an attic height in     *)
(* 1/24 m, so that run * ratio = (short_edge / 2) * (r / 12) is the integer *)
(* short_edge * r.  A quotient such as aspect_ratio is a reduced fraction   *)
(* <<numerator, denominator>>.                                              *)
(*                                                                         *)
(* Python values.  None is the empty tuple and a number v is <<v>>, so an   *)
(* optional value is always a tuple.  An instance's __dict__ entries made   *)
(* by functools.cached_property are a function from attribute names.  A     *)
(* file reference is a record: a local pathlib.Path or a remote URI, with   *)
(* the stem and the suffix of its file name.  A key of the feature mapping  *)
(* is the tuple of the pieces the code joins into the key's string.         *)
(***************************************************************************)
EXTENDS Integers, Sequences, FiniteSets, TLC

VARIABLES
    inp,        \* the raw input row handed to the constructors
    minimal,    \* <<>> or <<m>>: the validated MinimalBuildingSpec
    bld,        \* the GloBIBuildingSpec instances: a function on the bound names
    cache,      \* per instance name, the entries cached_property has stored
    last,       \* the most recent call: what it was and how it ended
    fetched,    \* per instance and file field, the fetch_uri calls that returned
    seen,       \* per instance, the mappings its feature_dict reads returned, in order
    hist,       \* per instance, the exceptions its reads have raised so far
    zone,       \* the surroundings of construct_zone_def: files, connections, streams
    thr,        \* the threads reading one memoised slot, each at its step
    e2e         \* the e2e command: clock, deadline, loop position, exit code

vars == <<inp, minimal, bld, cache, last, fetched, seen, hist, zone, thr, e2e>>

\* The parts of the state that the building specifications leave alone.
others == <<zone, thr, e2e>>

----------------------------------------------------------------------------
(* Bounds of the model *)

\* The names a client binds GloBIBuildingSpec instances to.
Inst == {"a", "b"}

\* Longest neighbor list tried.
MaxNeighbors == 3

Lengths == {2, 10, 15, 16}
FloorCounts == {-1, 0, 2}
F2FHeights == {-1, 0, 3}
Heights == {-1, 6}
WwrTenths == {-1, 0, 2, 10, 15}
TightEdges == {10, 16}
BasementFracs == {0, 25, 100}

\* The list lengths (polys, heights, floors) of the neighbor inputs tried.
NeighborLens ==
    { <<MaxNeighbors, MaxNeighbors, MaxNeighbors>>,
      <<MaxNeighbors, MaxNeighbors - 1, MaxNeighbors>> }

----------------------------------------------------------------------------
(* globi.type_utils *)

BasementAtticOccupationConditioningStatus ==
    { "none", "occupied_unconditioned", "unoccupied_unconditioned",
      "occupied_conditioned", "unoccupied_conditioned" }

OccupiedOptions == { "occupied_unconditioned", "occupied_conditioned" }

ConditionedOptions == { "unoccupied_conditioned", "occupied_conditioned" }

\* The statuses the construction runs try.
BuildBasements == { "none", "unoccupied_unconditioned", "occupied_conditioned" }

BuildAttics == { "none", "occupied_conditioned" }

----------------------------------------------------------------------------
(* Helpers: Python values, fractions, lists *)

None == <<>>

Val(v) == <<v>>

RECURSIVE GCD(_, _)
GCD(a, b) == IF b = 0 THEN a ELSE GCD(b, a % b)

\* n / d as a reduced fraction (d > 0).
Ratio(n, d) == LET g == GCD(n, d) IN <<n \div g, d \div g>>

Max(a, b) == IF a >= b THEN a ELSE b

Min(a, b) == IF a <= b THEN a ELSE b

\* A list of n copies of x.
Repeat(x, n) == [k \in 1..n |-> x]

\* A local file, a pathlib.Path.
Path(dir, stem, suffix) ==
    [kind |-> "Path", at |-> dir, stem |-> stem, suffix |-> suffix]

\* A remote file, an S3 or HTTP URI.
Uri(scheme, stem, suffix) ==
    [kind |-> "Uri", at |-> scheme, stem |-> stem, suffix |-> suffix]

\* The file fields of a building spec.
FileFields == {"db_file", "semantic_fields_file", "component_map_file", "epwzip_file"}

\* The record of a call: op is the callable, inst the instance it acted on
\* ("" for none), raised the exception type ("" when it returned), fields the
\* fields a ValidationError names, ret the returned value (None when there is
\* none) and draws the number of np.random.uniform calls it made.
Call(op, inst, raised, fields, ret, draws) ==
    [op |-> op, inst |-> inst, raised |-> raised, fields |-> fields,
     ret |-> ret, draws |-> draws]

NoCall == Call("", "", "", {}, None, 0)

----------------------------------------------------------------------------
(* MinimalBuildingSpec *)

\* The keyword arguments MinimalBuildingSpec is called with.
MinimalArgs(row) ==
    [db_file |-> Uri("s3", "components", ".db"),
     semantic_fields_file |-> Uri("s3", "semantic-fields", ".yml"),
     component_map_file |-> Uri("s3", "component-map", ".yml"),
     epwzip_file |-> row.epwzip_file,
     semantic_field_context |-> row.semantic_field_context,
     length |-> row.length, width |-> row.width, num_floors |-> row.num_floors,
     f2f_height |-> row.f2f_height, wwr |-> row.wwr, basement |-> row.basement,
     attic |-> row.attic, exposed_basement_frac |-> row.exposed_basement_frac]

\* The fields whose Field constraints the arguments violate.
MinimalFieldErrors(a) ==
    {f \in {"length"} : ~(a.length >= 3)}
    \cup {f \in {"width"} : ~(a.width >= 3)}
    \cup {f \in {"num_floors"} : ~(a.num_floors >= 1)}
    \cup {f \in {"f2f_height"} : ~(a.f2f_height >= 0)}
    \cup {f \in {"wwr"} : ~(a.wwr >= 0 /\ a.wwr <= 10)}
    \cup {f \in {"basement"} : a.basement \notin BasementAtticOccupationConditioningStatus}
    \cup {f \in {"attic"} : a.attic \notin BasementAtticOccupationConditioningStatus}
    \cup {f \in {"exposed_basement_frac"} :
            ~(a.exposed_basement_frac >= 0 /\ a.exposed_basement_frac <= 100)}

\* The model validator run after the fields validated.
\* (the validator with the swap left out)
order_length_width_absent(m) == m

order_length_width(m) ==
    IF m.length < m.width
    THEN [m EXCEPT !.length = m.width, !.width = m.length]
    ELSE m

\* The corners of "Polygon ((0 0, l 0, l w, 0 w, 0 0))".
\* (the rectangle with length and width exchanged)
RectangleWktTransposed(l, w) == << <<0, 0>>, <<w, 0>>, <<w, l>>, <<0, l>>, <<0, 0>> >>

RectangleWkt(l, w) == << <<0, 0>>, <<l, 0>>, <<l, w>>, <<0, w>>, <<0, 0>> >>

\* The keyword arguments globi_spec passes to GloBIBuildingSpec.
globi_spec(m) ==
    [db_file |-> m.db_file,
     semantic_fields_file |-> m.semantic_fields_file,
     component_map_file |-> m.component_map_file,
     epwzip_file |-> m.epwzip_file,
     semantic_field_context |-> m.semantic_field_context,
     building_id |-> "placeholder",
     neighbor_polys |-> <<>>,
     neighbor_heights |-> <<>>,
     neighbor_floors |-> <<>>,
     rotated_rectangle |-> RectangleWkt(m.length, m.width),
     long_edge_angle |-> 0,
     long_edge |-> m.length,
     short_edge |-> m.width,
     aspect_ratio |-> Ratio(m.length, m.width),
     wwr |-> m.wwr,
     num_floors |-> m.num_floors,
     f2f_height |-> m.f2f_height,
     height |-> m.num_floors * m.f2f_height,
     basement |-> m.basement,
     attic |-> m.attic,
     exposed_basement_frac |-> m.exposed_basement_frac,
     rotated_rectangle_area_ratio |-> Ratio(1, 1),
     experiment_id |-> "MinimalBuildingSpec",
     sort_index |-> 0]

----------------------------------------------------------------------------
(* GloBIBuildingSpec *)

\* The keyword arguments of a row of GIS-derived fields: the edges, the
\* height and the neighbor lists are taken as the row gives them.
GisArgs(row) ==
    [db_file |-> Uri("s3", "components", ".db"),
     semantic_fields_file |-> Uri("s3", "semantic-fields", ".yml"),
     component_map_file |-> Uri("s3", "component-map", ".yml"),
     epwzip_file |-> row.epwzip_file,
     semantic_field_context |-> row.semantic_field_context,
     building_id |-> "B1",
     neighbor_polys |-> Repeat("Polygon", row.neighbors[1]),
     neighbor_heights |-> Repeat(9, row.neighbors[2]),
     neighbor_floors |-> Repeat(3, row.neighbors[3]),
     rotated_rectangle |-> << <<1, 1>>, <<1 + row.length, 1>>,
                              <<1 + row.length, 1 + row.width>>,
                              <<1, 1 + row.width>>, <<1, 1>> >>,
     long_edge_angle |-> 1,
     long_edge |-> row.length,
     short_edge |-> row.width,
     aspect_ratio |-> Ratio(row.length, row.width),
     wwr |-> row.wwr,
     num_floors |-> row.num_floors,
     f2f_height |-> row.f2f_height,
     height |-> row.height,
     basement |-> row.basement,
     attic |-> row.attic,
     exposed_basement_frac |-> row.exposed_basement_frac,
     rotated_rectangle_area_ratio |-> Ratio(9, 10),
     experiment_id |-> "experiment",
     sort_index |-> 1]

\* wwr: ge=0, le=1 (in tenths)
\* (wwr with le=1 left out)
wwr_unbounded_above(v) == v >= 0

wwr_constraint(v) == v >= 0 /\ v <= 10

\* height: ge=0
height_constraint(v) == v >= 0

\* num_floors: ge=0
\* (num_floors with ge=0 left out)
num_floors_unconstrained(v) == TRUE

num_floors_constraint(v) == v >= 0

\* f2f_height: ge=0
f2f_height_constraint(v) == v >= 0

\* exposed_basement_frac: gt=0, lt=1 (in hundredths)
\* (exposed_basement_frac with ge=0, le=1, as MinimalBuildingSpec has it)
exposed_basement_frac_inclusive(v) == v >= 0 /\ v <= 100

exposed_basement_frac_constraint(v) == v > 0 /\ v < 100

\* (exposed_basement_frac looked at only where there is a basement)
GloBIFieldErrors_frac_with_basement_only(a) ==
    {f \in {"wwr"} : ~wwr_constraint(a.wwr)}
    \cup {f \in {"height"} : ~height_constraint(a.height)}
    \cup {f \in {"num_floors"} : ~num_floors_constraint(a.num_floors)}
    \cup {f \in {"f2f_height"} : ~f2f_height_constraint(a.f2f_height)}
    \cup {f \in {"basement"} : a.basement \notin BasementAtticOccupationConditioningStatus}
    \cup {f \in {"attic"} : a.attic \notin BasementAtticOccupationConditioningStatus}
    \cup {f \in {"exposed_basement_frac"} :
            a.basement # "none"
            /\ ~exposed_basement_frac_constraint(a.exposed_basement_frac)}

\* The fields whose Field constraints the arguments violate.
GloBIFieldErrors(a) ==
    {f \in {"wwr"} : ~wwr_constraint(a.wwr)}
    \cup {f \in {"height"} : ~height_constraint(a.height)}
    \cup {f \in {"num_floors"} : ~num_floors_constraint(a.num_floors)}
    \cup {f \in {"f2f_height"} : ~f2f_height_constraint(a.f2f_height)}
    \cup {f \in {"basement"} : a.basement \notin BasementAtticOccupationConditioningStatus}
    \cup {f \in {"attic"} : a.attic \notin BasementAtticOccupationConditioningStatus}
    \cup {f \in {"exposed_basement_frac"} :
            ~exposed_basement_frac_constraint(a.exposed_basement_frac)}

----------------------------------------------------------------------------
(* Construction *)

\* The weather archive of the rows: a remote one and a local one.
RemoteWeather == Uri("https", "USA_MA_Boston", ".zip")

LocalWeather == Path("/data", "USA_MA_Boston", ".zip")

\* The semantic_field_context of the rows; one of its keys is spelled like
\* a geometry feature.
SemanticContext == [Typology |-> "Office", long_edge |-> "wide"]

\* No zone is being constructed, no thread and no command is running.
Idle == zone = None /\ thr = None /\ e2e = None

\* No call has fetched or returned anything for any instance.
NothingObserved ==
    /\ fetched = [i \in Inst |-> [f \in FileFields |-> 0]]
    /\ seen = [i \in Inst |-> <<>>]
    /\ hist = [i \in Inst |-> {}]

BuildInputs ==
    [epwzip_file : {RemoteWeather}, semantic_field_context : {SemanticContext},
     length : Lengths, width : Lengths, num_floors : FloorCounts,
     f2f_height : F2FHeights, wwr : WwrTenths, basement : BuildBasements,
     attic : BuildAttics, exposed_basement_frac : BasementFracs,
     height : Heights, neighbors : NeighborLens]

Init ==
    /\ inp \in BuildInputs
    /\ minimal = <<>>
    /\ bld = <<>>
    /\ cache = [i \in Inst |-> <<>>]
    /\ last = NoCall
    /\ NothingObserved
    /\ Idle

\* m = MinimalBuildingSpec(**row)
ConstructMinimal ==
    LET a == MinimalArgs(inp)
        errs == MinimalFieldErrors(a)
    IN  /\ IF errs = {}
           THEN /\ minimal' = <<order_length_width(a)>>
                /\ last' = Call("MinimalBuildingSpec", "", "", {}, None, 0)
           ELSE /\ minimal' = minimal
                /\ last' = Call("MinimalBuildingSpec", "", "ValidationError", errs, None, 0)
        /\ UNCHANGED <<inp, bld, cache, fetched, seen, hist, others>>

\* The constructor of GloBIBuildingSpec, binding the new instance to i.
NewGloBIBuildingSpec(op, i, a) ==
    LET errs == GloBIFieldErrors(a)
    IN  IF errs = {}
        THEN /\ bld' = (i :> a) @@ bld
             /\ cache' = [cache EXCEPT ![i] = <<>>]
             /\ fetched' = [fetched EXCEPT ![i] = [f \in FileFields |-> 0]]
             /\ seen' = [seen EXCEPT ![i] = <<>>]
             /\ hist' = [hist EXCEPT ![i] = {}]
             /\ last' = Call(op, i, "", {}, None, 0)
        ELSE /\ bld' = bld
             /\ cache' = cache
             /\ UNCHANGED <<fetched, seen, hist>>
             /\ last' = Call(op, i, "ValidationError", errs, None, 0)

\* i = m.globi_spec
GlobiSpec(i) ==
    /\ minimal # <<>>
    /\ NewGloBIBuildingSpec("globi_spec", i, globi_spec(minimal[1]))
    /\ UNCHANGED <<inp, minimal, others>>

\* i = GloBIBuildingSpec(**row)
ConstructGloBI(i) ==
    /\ NewGloBIBuildingSpec("GloBIBuildingSpec", i, GisArgs(inp))
    /\ UNCHANGED <<inp, minimal, others>>

Next ==
    \/ ConstructMinimal
    \/ \E i \in Inst : GlobiSpec(i)
    \/ \E i \in Inst : ConstructGloBI(i)

Spec == Init /\ [][Next]_vars

----------------------------------------------------------------------------
(* The derived and memoised properties of a GloBIBuildingSpec b *)

basement_is_occupied(b) == b.basement \in OccupiedOptions

attic_is_occupied(b) == b.attic \in OccupiedOptions

basement_is_conditioned(b) == b.basement \in ConditionedOptions

attic_is_conditioned(b) == b.attic \in ConditionedOptions

has_basement(b) == b.basement # "none"

has_attic(b) == b.attic # "none"

\* What evaluating a property's body can end in: the value returned, or
\* the exception raised, and the number of np.random.uniform calls made.
Outcome(ret, raised, draws) == [ret |-> ret, raised |-> raised, draws |-> draws]

\* np.random.uniform(low, high) draws from [low, high): the model tries
\* the two ends of the range on the integer grid of the unit.
uniform(low, high) == {low, high - 1}

\* (basement_use_fraction sampling whatever the status)
basement_use_fraction_unconditional(b) ==
    {Outcome(Val(v), "", 1) : v \in uniform(20, 60)}

basement_use_fraction(b) ==
    IF ~basement_is_occupied(b)
    THEN {Outcome(Val(0), "", 0)}
    ELSE {Outcome(Val(v), "", 1) : v \in uniform(20, 60)}

attic_use_fraction(b) ==
    IF ~attic_is_occupied(b)
    THEN {Outcome(Val(0), "", 0)}
    ELSE {Outcome(Val(v), "", 1) : v \in uniform(20, 60)}

\* attempts = 20
Attempts == 20

\* (the loop accepting whatever it draws first: the test of the candidate
\* against 2.5 times f2f_height left out)
attic_height_loop_unchecked(b, attempts) ==
    LET ratios == IF attic_is_occupied(b) \/ attic_is_conditioned(b)
                  THEN uniform(6, 9)
                  ELSE uniform(4, 6)
    IN  {Outcome(Val(b.short_edge * r), "", 1) : r \in ratios}

\* (the loop with the two ranges of the ratio exchanged)
RECURSIVE attic_height_loop_ranges_exchanged(_, _)
attic_height_loop_ranges_exchanged(b, attempts) ==
    IF attempts > 0
    THEN LET ratios == IF attic_is_occupied(b) \/ attic_is_conditioned(b)
                       THEN uniform(4, 6)
                       ELSE uniform(6, 9)
             again == attic_height_loop_ranges_exchanged(b, attempts - 1)
         IN  UNION { IF b.short_edge * r > b.f2f_height * 60
                     THEN {[o EXCEPT !.draws = @ + 1] : o \in again}
                     ELSE {Outcome(Val(b.short_edge * r), "", 1)} : r \in ratios }
    ELSE {Outcome(None, "ValueError", 0)}

\* The while loop of attic_height entered with attic_height None and
\* `attempts` attempts left. A draw r gives run * r = short_edge * r in 1/24 m,
\* rejected when above f2f_height * 2.5, which is f2f_height * 60 in 1/24 m.
RECURSIVE attic_height_loop(_, _)
attic_height_loop(b, attempts) ==
    IF attempts > 0
    THEN LET ratios == IF attic_is_occupied(b) \/ attic_is_conditioned(b)
                       THEN uniform(6, 9)
                       ELSE uniform(4, 6)
             again == attic_height_loop(b, attempts - 1)
         IN  UNION { IF b.short_edge * r > b.f2f_height * 60
                     THEN {[o EXCEPT !.draws = @ + 1] : o \in again}
                     ELSE {Outcome(Val(b.short_edge * r), "", 1)} : r \in ratios }
    ELSE {Outcome(None, "ValueError", 0)}

\* (attic_height returning the limit, 2.5 times f2f_height, in place of
\* raising when every attempt was rejected)
attic_height_capped(b) ==
    IF ~has_attic(b)
    THEN {Outcome(None, "", 0)}
    ELSE {IF o.raised = "" THEN o ELSE Outcome(Val(b.f2f_height * 60), "", o.draws) :
             o \in attic_height_loop(b, Attempts)}

\* (attic_height sampling without looking at has_attic)
attic_height_always_sampled(b) == attic_height_loop(b, Attempts)

attic_height(b) ==
    IF ~has_attic(b)
    THEN {Outcome(None, "", 0)}
    ELSE attic_height_loop(b, Attempts)

\* (the comparison with 15 taken as inclusive)
use_core_perim_zoning_inclusive(b) ==
    IF b.long_edge >= 15 /\ b.short_edge >= 15 THEN "core/perim" ELSE "by_storey"

use_core_perim_zoning(b) ==
    IF b.long_edge > 15 /\ b.short_edge > 15 THEN "core/perim" ELSE "by_storey"

n_conditioned_floors(b) ==
    b.num_floors
    + (IF basement_is_conditioned(b) THEN 1 ELSE 0)
    + (IF attic_is_conditioned(b) THEN 1 ELSE 0)

\* (the count with the attic left out)
n_occupied_floors_without_attic(b) ==
    b.num_floors + (IF basement_is_occupied(b) THEN 1 ELSE 0)

n_occupied_floors(b) ==
    b.num_floors
    + (IF basement_is_occupied(b) THEN 1 ELSE 0)
    + (IF attic_is_occupied(b) THEN 1 ELSE 0)

\* (the footprint taken as long_edge squared)
energy_model_footprint_area_squared(b) == b.long_edge * b.long_edge

energy_model_footprint_area(b) == b.long_edge * b.short_edge

energy_model_conditioned_area(b) ==
    n_conditioned_floors(b) * energy_model_footprint_area(b)

energy_model_occupied_area(b) ==
    n_occupied_floors(b) * energy_model_footprint_area(b)

----------------------------------------------------------------------------
(* functools.cached_property: the first read runs the body and stores what *)
(* it returns in the instance's __dict__; a body that raises stores nothing *)

\* (a plain property: nothing is stored)
cached_property_forgets(d, name, v) == d

cached_property_set(d, name, v) == (name :> v) @@ d

\* A read of the cached property `name` of instance i, whose body can end
\* in `outcomes`, starting from the instance's entries d.
CachedRead(i, name, d, outcomes) ==
    IF name \in DOMAIN d
    THEN /\ cache' = [cache EXCEPT ![i] = d]
         /\ last' = Call(name, i, "", {}, d[name], 0)
         /\ hist' = hist
    ELSE \E o \in outcomes :
            IF o.raised = ""
            THEN /\ cache' = [cache EXCEPT ![i] = cached_property_set(d, name, o.ret)]
                 /\ last' = Call(name, i, "", {}, o.ret, o.draws)
                 /\ hist' = hist
            ELSE /\ cache' = [cache EXCEPT ![i] = d]
                 /\ last' = Call(name, i, o.raised, {}, None, o.draws)
                 /\ hist' = [hist EXCEPT ![i] = @ \cup {o.raised}]

\* i.basement_use_fraction
ReadBasementUseFraction(i) ==
    /\ i \in DOMAIN bld
    /\ CachedRead(i, "basement_use_fraction", cache[i], basement_use_fraction(bld[i]))
    /\ UNCHANGED <<inp, minimal, bld, fetched, seen, others>>

\* i.attic_use_fraction
ReadAtticUseFraction(i) ==
    /\ i \in DOMAIN bld
    /\ CachedRead(i, "attic_use_fraction", cache[i], attic_use_fraction(bld[i]))
    /\ UNCHANGED <<inp, minimal, bld, fetched, seen, others>>

\* i.attic_height; its body reads the cached property has_attic first.
ReadAtticHeight(i) ==
    /\ i \in DOMAIN bld
    /\ LET d == IF "attic_height" \in DOMAIN cache[i] \/ "has_attic" \in DOMAIN cache[i]
                THEN cache[i]
                ELSE cached_property_set(cache[i], "has_attic", has_attic(bld[i]))
       IN  CachedRead(i, "attic_height", d, attic_height(bld[i]))
    /\ UNCHANGED <<inp, minimal, bld, fetched, seen, others>>

\* A valid row of GIS-derived fields with short edge w, floor-to-floor
\* height f and the two statuses.
UseRow(w, f, basement, attic) ==
    [epwzip_file |-> RemoteWeather, semantic_field_context |-> SemanticContext,
     length |-> 16, width |-> w, num_floors |-> 2, f2f_height |-> f,
     wwr |-> 2, basement |-> basement, attic |-> attic,
     exposed_basement_frac |-> 25, height |-> 2 * f, neighbors |-> <<0, 0, 0>>]

\* The rows the runs that read properties start from: every pair of
\* statuses at an ordinary geometry (short edge 10, floors of 3, where every
\* attic draw is accepted), and every attic status at the tight geometries
\* (floors of 1, where a draw can be rejected), there with no basement.
UseInputs ==
    {UseRow(10, 3, bs, at) : bs \in BasementAtticOccupationConditioningStatus,
                             at \in BasementAtticOccupationConditioningStatus}
    \cup {UseRow(w, 1, "none", at) : w \in TightEdges,
                                     at \in BasementAtticOccupationConditioningStatus}

\* Two instances constructed from the same row, nothing read yet.
UseInit ==
    /\ inp \in UseInputs
    /\ GloBIFieldErrors(GisArgs(inp)) = {}
    /\ minimal = <<>>
    /\ bld = [i \in Inst |-> GisArgs(inp)]
    /\ cache = [i \in Inst |-> <<>>]
    /\ last = NoCall
    /\ NothingObserved
    /\ Idle

UseNext ==
    \/ \E i \in Inst : ReadBasementUseFraction(i)
    \/ \E i \in Inst : ReadAtticUseFraction(i)
    \/ \E i \in Inst : ReadAtticHeight(i)

UseSpec == UseInit /\ [][UseNext]_vars

----------------------------------------------------------------------------
(* feature_dict and the cached properties it reads *)

\* Most returning fetch_uri calls followed per instance and file field.
MaxFetches == 2

\* Most returning feature_dict reads followed per instance.
MaxReads == 2

\* azimuthal_angle = 2 * np.pi / 48: the number of directions of the mask
ShadingBins == 48

\* What a cached property body that can fetch ends in.
FetchOutcome(ret, raised, fetches) ==
    [ret |-> ret, raised |-> raised, draws |-> 0, fetches |-> fetches]

\* The fetch_uri calls that returned during an outcome.
Fetches(o) == IF "fetches" \in DOMAIN o THEN o.fetches ELSE 0

\* self.fetch_uri(uri): the local copy of the remote file, or an error
\* when the file cannot be retrieved.
fetch_uri(uri) ==
    { FetchOutcome(Val(Path("/cache", uri.stem, uri.suffix)), "", 1),
      FetchOutcome(None, "FetchError", 0) }

\* (what the read ended in never stored)
StoredNothing(d, name, o) == d

\* (an entry stored even when the body raised)
StoredEvenWhenRaised(d, name, o) ==
    IF name \notin DOMAIN d THEN cached_property_set(d, name, o.ret) ELSE d

epwzip_path(b) ==
    IF b.epwzip_file.kind = "Path"
    THEN {FetchOutcome(Val(b.epwzip_file), "", 0)}
    ELSE fetch_uri(b.epwzip_file)

\* pathlib.Path.stem: the file name without the directory and the suffix
stem(path) == path.stem

\* (a plain property: the body runs on every read)
CachedOutcomesRecomputed(d, name, outcomes) == outcomes

\* The outcomes of reading the cached property `name` from the entries d.
CachedOutcomes(d, name, outcomes) ==
    IF name \in DOMAIN d THEN {Outcome(d[name], "", 0)} ELSE outcomes

\* The entries after that read ended in o.
Stored(d, name, o) ==
    IF o.raised = "" /\ name \notin DOMAIN d
    THEN cached_property_set(d, name, o.ret)
    ELSE d

\* features.update(e) and features[k] = v: the later entry wins.
update(features, e) == e @@ features

\* The decimal digit n as a character.
Digit(n) == <<"0", "1", "2", "3", "4", "5", "6", "7", "8", "9">>[n + 1]

\* f"{i:02d}" for 0 <= i < 100: two characters, a leading zero below 10.
\* (the index printed without the zero padding)
FormatUnpadded(i) == IF i < 10 THEN <<Digit(i)>> ELSE <<Digit(i \div 10), Digit(i % 10)>>

Format02d(i) == <<Digit(i \div 10), Digit(i % 10)>>

\* np.cos and np.sin of an angle, left as terms.
cos(angle) == <<"cos", angle>>

sin(angle) == <<"sin", angle>>

\* compute_shading_mask(rectangle, neighbors, neighbor_heights,
\* azimuthal_angle = 2 pi / bins).tolist(): one value per direction, a
\* function of the arguments; 0 where no neighbor shades, 1 standing for
\* the elevation angle of a neighbor.
compute_shading_mask(rectangle, neighbors, neighbor_heights, bins) ==
    [k \in 1..bins |-> IF neighbors = <<>> \/ neighbor_heights = <<>> THEN 0 ELSE 1]

\* x or 0
OrZero(x) == IF x = None \/ x = Val(0) THEN 0 ELSE x[1]

\* (the flag written as str(bool))
YesNoAsBool(x) == IF x THEN "True" ELSE "False"

\* "Yes" if x else "No"
YesNo(x) == IF x THEN "Yes" ELSE "No"

\* The dict literal feature_dict starts from, attic_height read as ah.
geometry_features(b, ah) ==
    (<<"feature.geometry.long_edge">> :> b.long_edge)
    @@ (<<"feature.geometry.short_edge">> :> b.short_edge)
    @@ (<<"feature.geometry.orientation">> :> b.long_edge_angle)
    @@ (<<"feature.geometry.orientation.cos">> :> cos(b.long_edge_angle))
    @@ (<<"feature.geometry.orientation.sin">> :> sin(b.long_edge_angle))
    @@ (<<"feature.geometry.aspect_ratio">> :> b.aspect_ratio)
    @@ (<<"feature.geometry.wwr">> :> b.wwr)
    @@ (<<"feature.geometry.num_floors">> :> b.num_floors)
    @@ (<<"feature.geometry.f2f_height">> :> b.f2f_height)
    @@ (<<"feature.geometry.zoning">> :> use_core_perim_zoning(b))
    @@ (<<"feature.geometry.energy_model_conditioned_area">> :>
            energy_model_conditioned_area(b))
    @@ (<<"feature.geometry.energy_model_occupied_area">> :>
            energy_model_occupied_area(b))
    @@ (<<"feature.geometry.attic_height">> :> OrZero(ah))
    @@ (<<"feature.geometry.exposed_basement_frac">> :> b.exposed_basement_frac)

\* {f"feature.geometry.shading_mask_{i:02d}": val for i, val in enumerate(mask)}
shading_mask_values(mask) ==
    LET key(i) == <<"feature.geometry.shading_mask_">> \o Format02d(i)
    IN  [k \in {key(i) : i \in 0..(Len(mask) - 1)} |->
            mask[1 + CHOOSE i \in 0..(Len(mask) - 1) : key(i) = k]]

\* {f"feature.semantic.{name}": value for name, value in context.items()}
semantic_features(context) ==
    [k \in {<<"feature.semantic.", name>> : name \in DOMAIN context} |->
        context[k[2]]]

\* The four feature.extra_spaces entries of `space`, "basement" or "attic".
extra_space_features(b, space, exists, use_fraction) ==
    (<<"feature.extra_spaces.", space, ".exists">> :> YesNo(exists))
    @@ (<<"feature.extra_spaces.", space, ".occupied">> :>
            YesNo(IF space = "basement" THEN basement_is_occupied(b)
                                        ELSE attic_is_occupied(b)))
    @@ (<<"feature.extra_spaces.", space, ".conditioned">> :>
            YesNo(IF space = "basement" THEN basement_is_conditioned(b)
                                        ELSE attic_is_conditioned(b)))
    @@ (<<"feature.extra_spaces.", space, ".use_fraction">> :> use_fraction[1])

\* The mapping feature_dict returns once the cached properties it reads
\* gave ah, path, hb, bu, ha and au.
features_of(b, ah, path, hb, bu, ha, au) ==
    LET literal == geometry_features(b, ah)
        shaded == update(literal,
                         shading_mask_values(
                             compute_shading_mask(b.rotated_rectangle, b.neighbor_polys,
                                                  b.neighbor_heights, ShadingBins)))
        semantic == update(shaded, semantic_features(b.semantic_field_context))
        weather == update(semantic, <<"feature.weather.file">> :> stem(path[1]))
        basement == update(weather, extra_space_features(b, "basement", hb, bu))
    IN  update(basement, extra_space_features(b, "attic", ha, au))

\* How one evaluation of feature_dict ends: the instance's entries after
\* it, the exception or the mapping, the draws and the fetches it made.
Run(d, raised, ret, draws, fetches) ==
    [d |-> d, raised |-> raised, ret |-> ret, draws |-> draws, fetches |-> fetches]

\* The evaluations of feature_dict on b with entries d0, in the order of
\* the code: attic_height in the dict literal, then epwzip_path, then
\* has_basement, basement_use_fraction, has_attic and attic_use_fraction.
\* An exception ends the evaluation and keeps what was stored before it.
feature_dict(b, d0) ==
    LET d1 == IF "attic_height" \in DOMAIN d0
              THEN d0
              ELSE Stored(d0, "has_attic", Outcome(has_attic(b), "", 0))
        rest(d2, ah, path, draws, fetches) ==
            LET hb == CHOOSE o \in CachedOutcomes(d2, "has_basement",
                                     {Outcome(has_basement(b), "", 0)}) : TRUE
                d3 == Stored(d2, "has_basement", hb)
            IN  UNION {
                  LET d4 == Stored(d3, "basement_use_fraction", bu)
                      ha == CHOOSE o \in CachedOutcomes(d4, "has_attic",
                                     {Outcome(has_attic(b), "", 0)}) : TRUE
                      d5 == Stored(d4, "has_attic", ha)
                  IN  { Run(Stored(d5, "attic_use_fraction", au), "",
                            Val(features_of(b, ah, path, hb.ret, bu.ret, ha.ret, au.ret)),
                            draws + bu.draws + au.draws, fetches) :
                        au \in CachedOutcomes(d5, "attic_use_fraction",
                                              attic_use_fraction(b)) } :
                  bu \in CachedOutcomes(d3, "basement_use_fraction",
                                        basement_use_fraction(b)) }
    IN  UNION {
          LET d2 == Stored(d1, "attic_height", oh)
          IN  IF oh.raised # ""
              THEN {Run(d2, oh.raised, None, oh.draws, 0)}
              ELSE UNION {
                     LET d3 == Stored(d2, "epwzip_path", op)
                     IN  IF op.raised # ""
                         THEN {Run(d3, op.raised, None, oh.draws, Fetches(op))}
                         ELSE rest(d3, oh.ret, op.ret, oh.draws, Fetches(op)) :
                     op \in CachedOutcomes(d2, "epwzip_path", epwzip_path(b)) } :
          oh \in CachedOutcomes(d1, "attic_height", attic_height(b)) }

\* i.feature_dict
FeatureDict(i) ==
    /\ i \in DOMAIN bld
    /\ \E run \in feature_dict(bld[i], cache[i]) :
          /\ fetched[i]["epwzip_file"] + run.fetches <= MaxFetches
          /\ run.raised = "" => Len(seen[i]) < MaxReads
          /\ cache' = [cache EXCEPT ![i] = run.d]
          /\ fetched' = [fetched EXCEPT ![i]["epwzip_file"] = @ + run.fetches]
          /\ seen' = IF run.raised = ""
                     THEN [seen EXCEPT ![i] = Append(@, run.ret[1])]
                     ELSE seen
          /\ hist' = IF run.raised = ""
                     THEN hist
                     ELSE [hist EXCEPT ![i] = @ \cup {run.raised}]
          /\ last' = Call("feature_dict", i, run.raised, {}, run.ret, run.draws)
    /\ UNCHANGED <<inp, minimal, bld, others>>

\* A valid row of GIS-derived fields with the edges l and w, floors of f,
\* the two statuses, the weather archive and the semantic context.
FeatureRow(l, w, f, basement, attic, file, context) ==
    [epwzip_file |-> file, semantic_field_context |-> context,
     length |-> l, width |-> w, num_floors |-> 2, f2f_height |-> f,
     wwr |-> 2, basement |-> basement, attic |-> attic,
     exposed_basement_frac |-> 25, height |-> 2 * f, neighbors |-> <<0, 0, 0>>]

\* The rows the runs that read feature_dict start from: the rows of
\* UseInputs, a tight geometry with an occupied basement and attic, and
\* buildings with edges around 15 m, a remote or a local weather archive
\* and one or two semantic fields.
FeatureInputs ==
    UseInputs
    \cup {FeatureRow(16, 10, 1, "occupied_conditioned", "occupied_conditioned",
                     RemoteWeather, SemanticContext)}
    \cup {FeatureRow(l, w, 3, "none", at, file, context) :
            l \in {15, 16}, w \in {15, 16}, at \in BuildAttics,
            file \in {RemoteWeather, LocalWeather},
            context \in {SemanticContext, [Age |-> 1990]}}

\* One instance constructed from the row, nothing read yet.
FeatureInit ==
    /\ inp \in FeatureInputs
    /\ GloBIFieldErrors(GisArgs(inp)) = {}
    /\ minimal = <<>>
    /\ bld = [i \in {"a"} |-> GisArgs(inp)]
    /\ cache = [i \in Inst |-> <<>>]
    /\ last = NoCall
    /\ NothingObserved
    /\ Idle

FeatureNext ==
    \/ UseNext
    \/ \E i \in Inst : FeatureDict(i)

FeatureSpec == FeatureInit /\ [][FeatureNext]_vars

----------------------------------------------------------------------------
(* construct_zone_def: the component map, the database and the lookup *)

\* Most PrismaSettings objects followed.
MaxSettings == 3

\* Most versions of the database file's content followed.
MaxVersions == 3

\* self.component_map, a plain property: its body runs on every read and
\* nothing is stored.
component_map(b) ==
    IF b.component_map_file.kind = "Path"
    THEN {FetchOutcome(Val(b.component_map_file), "", 0)}
    ELSE fetch_uri(b.component_map_file)

db_path(b) ==
    IF b.db_file.kind = "Path"
    THEN {FetchOutcome(Val(b.db_file), "", 0)}
    ELSE fetch_uri(b.db_file)

\* What logger.info / logger.error write about the database file.
LogDatabase(exists) ==
    IF exists THEN "info: Loading database" ELSE "error: Database file not found"

\* (the settings object of the first call kept for the later ones)
PrismaSettings_Reused(z) == IF z.settings = 0 THEN 1 ELSE z.settings

\* PrismaSettings.New(database_path=..., if_exists="ignore",
\* auto_register=False): the identity of the settings object, a new one
\* on every call.
PrismaSettings_New(z) == z.settings + 1

\* db.__enter__: the connection of settings object id is open; a handle
\* reads the content the file had when it was first connected.
db_enter(z, id) ==
    [z EXCEPT !.conns = @ \cup {id},
              !.handles = IF id \in DOMAIN @ THEN @ ELSE (id :> z.version) @@ @]

\* (a connection closed only when the body returned)
db_exit_on_return_only(z, id, raised) ==
    IF raised = "" THEN [z EXCEPT !.conns = @ \ {id}] ELSE z

\* db.__exit__, run by the with statement however the body ends.
db_exit(z, id, raised) == [z EXCEPT !.conns = @ \ {id}]

\* sys.stdout = sys.stderr = _devnull
redirect(z) == [z EXCEPT !.stdout = "devnull", !.stderr = "devnull"]

\* finally: sys.stdout, sys.stderr = _old_stdout, _old_stderr
restore(z, old_stdout, old_stderr) ==
    [z EXCEPT !.stdout = old_stdout, !.stderr = old_stderr]

\* selector.get_component(context=context, db=db) through the handle id:
\* a zone built from the content the handle reads, or the library's error
\* when the components are not found; a database file that does not exist
\* holds no component.
get_component(z, id) ==
    {Outcome(None, "LookupError", 0)}
    \cup IF z.exists
         THEN {Outcome(Val([version |-> z.handles[id], settings |-> id]), "", 0)}
         ELSE {}

\* with db: zone = selector.get_component(...): the states and outcomes
\* after the with statement.
with_db(z, id) ==
    { [z |-> db_exit(db_enter(z, id), id, o.raised), o |-> o] :
        o \in get_component(db_enter(z, id), id) }

\* How one call of construct_zone_def ends: the instance's entries, the
\* surroundings, the exception or the zone, and the fetches of the
\* component map and of the database that returned.
ZoneRun(d, z, raised, ret, map_fetches, db_fetches) ==
    [d |-> d, z |-> z, raised |-> raised, ret |-> ret,
     map_fetches |-> map_fetches, db_fetches |-> db_fetches]

\* The calls of construct_zone_def on b with entries d0 and surroundings
\* z0, in the order of the code.
construct_zone_def(b, d0, z0) ==
    UNION {
      LET d1 == d0
      IN  IF cm.raised # ""
          THEN {ZoneRun(d0, z0, cm.raised, None, 0, 0)}
          ELSE UNION {
                 LET d2 == Stored(d1, "db_path", dbp)
                 IN  IF dbp.raised # ""
                     THEN {ZoneRun(d2, z0, dbp.raised, None, Fetches(cm), 0)}
                     ELSE LET z1 == [z0 EXCEPT !.log = LogDatabase(z0.exists)]
                              id == PrismaSettings_New(z1)
                              z2 == [z1 EXCEPT !.settings = id]
                              old_stdout == z2.stdout
                              old_stderr == z2.stderr
                              z3 == IF z2.fileno THEN z2 ELSE redirect(z2)
                          IN  { ZoneRun(d2,
                                        IF z2.fileno THEN w.z
                                        ELSE restore(w.z, old_stdout, old_stderr),
                                        w.o.raised, w.o.ret, Fetches(cm), Fetches(dbp)) :
                                w \in with_db(z3, id) } :
                 dbp \in CachedOutcomes(d1, "db_path", db_path(b)) } :
      cm \in component_map(b) }

\* i.construct_zone_def()
ConstructZoneDef(i) ==
    /\ i \in DOMAIN bld
    /\ zone.settings < MaxSettings
    /\ \E run \in construct_zone_def(bld[i], cache[i], zone) :
          /\ fetched[i]["component_map_file"] + run.map_fetches <= MaxFetches
          /\ fetched[i]["db_file"] + run.db_fetches <= MaxFetches
          /\ cache' = [cache EXCEPT ![i] = run.d]
          /\ zone' = run.z
          /\ fetched' = [fetched EXCEPT
                            ![i]["component_map_file"] = @ + run.map_fetches,
                            ![i]["db_file"] = @ + run.db_fetches]
          /\ hist' = IF run.raised = ""
                     THEN hist
                     ELSE [hist EXCEPT ![i] = @ \cup {run.raised}]
          /\ last' = Call("construct_zone_def", i, run.raised, {}, run.ret, 0)
    /\ UNCHANGED <<inp, minimal, bld, seen, thr, e2e>>

\* The database file is replaced by a newer one between two calls.
HotSwap ==
    /\ zone.exists
    /\ zone.version < MaxVersions
    /\ zone' = [zone EXCEPT !.version = @ + 1]
    /\ UNCHANGED <<inp, minimal, bld, cache, last, fetched, seen, hist, thr, e2e>>

\* The file references tried for the database and the component map.
DbFiles == {Uri("s3", "components", ".db"), Path("/data", "components", ".db")}

MapFiles == {Uri("s3", "component-map", ".yml"), Path("/data", "component-map", ".yml")}

\* One instance of a plain building, nothing read yet; the database file
\* is there or, for a local path, missing; sys.stdout has a file descriptor
\* or, as in a notebook, none.
ZoneInit ==
    /\ inp = UseRow(10, 3, "none", "none")
    /\ minimal = <<>>
    /\ \E db \in DbFiles, map \in MapFiles :
          bld = [i \in {"a"} |->
                   [GisArgs(inp) EXCEPT !.db_file = db, !.component_map_file = map]]
    /\ cache = [i \in Inst |-> <<>>]
    /\ last = NoCall
    /\ NothingObserved
    /\ \E exists \in BOOLEAN, fileno \in BOOLEAN :
          /\ bld["a"].db_file.kind = "Uri" => exists
          /\ zone = [exists |-> exists, version |-> 1, settings |-> 0,
                     handles |-> <<>>, conns |-> {}, fileno |-> fileno,
                     stdout |-> "original", stderr |-> "original", log |-> ""]
    /\ thr = None
    /\ e2e = None

ZoneNext ==
    \/ \E i \in Inst : ConstructZoneDef(i)
    \/ \E i \in Inst : FeatureDict(i)
    \/ HotSwap

ZoneSpec == ZoneInit /\ [][ZoneNext]_vars

----------------------------------------------------------------------------
(* Two threads reading one memoised slot of one instance.  The steps are   *)
(* those of functools.cached_property.__get__: look the attribute up in the *)
(* instance's __dict__, on a miss run the body, store what it returned and  *)
(* return it.  Up to Python 3.11 the miss path runs under the property's    *)
(* lock and looks the attribute up again; from Python 3.12 on there is no   *)
(* lock.  The module imports typing.Self, so the interpreter is 3.11 or     *)
(* later and either form can be the one that runs.                          *)

Threads == {"t1", "t2"}

\* The body of the memoised slot `name`.
SlotBody(b, name) ==
    CASE name = "basement_use_fraction" -> basement_use_fraction(b)
      [] name = "attic_use_fraction" -> attic_use_fraction(b)
      [] name = "attic_height" -> attic_height(b)

\* val = cache.get(self.attrname, _NOT_FOUND), outside any lock
ThreadLookup(t) ==
    /\ thr.pc[t] = "start"
    /\ IF thr.slot \in DOMAIN cache["a"]
       THEN thr' = [thr EXCEPT !.pc[t] = "done",
                               !.val[t] = Outcome(cache["a"][thr.slot], "", 0)]
       ELSE thr' = [thr EXCEPT !.pc[t] = "missed"]
    /\ UNCHANGED <<inp, minimal, bld, cache, last, fetched, seen, hist, zone, e2e>>

\* with self.lock: val = cache.get(self.attrname, _NOT_FOUND)
ThreadAcquire(t) ==
    /\ thr.pc[t] = "missed"
    /\ thr.lock = "free"
    /\ IF thr.slot \in DOMAIN cache["a"]
       THEN thr' = [thr EXCEPT !.pc[t] = "done",
                               !.val[t] = Outcome(cache["a"][thr.slot], "", 0)]
       ELSE thr' = [thr EXCEPT !.pc[t] = "running", !.lock = t]
    /\ UNCHANGED <<inp, minimal, bld, cache, last, fetched, seen, hist, zone, e2e>>

\* val = self.func(instance)
ThreadRunBody(t) ==
    /\ \/ thr.pc[t] = "missed" /\ thr.lock = "absent"
       \/ thr.pc[t] = "running" /\ thr.lock = t
    /\ \E o \in SlotBody(bld["a"], thr.slot) :
          thr' = [thr EXCEPT !.pc[t] = IF o.raised = "" THEN "computed" ELSE "done",
                             !.val[t] = o,
                             !.lock = IF o.raised # "" /\ @ = t THEN "free" ELSE @,
                             !.bodies = @ + 1]
    /\ UNCHANGED <<inp, minimal, bld, cache, last, fetched, seen, hist, zone, e2e>>

\* cache[self.attrname] = val; return val
ThreadStore(t) ==
    /\ thr.pc[t] = "computed"
    /\ cache' = [cache EXCEPT !["a"] = cached_property_set(@, thr.slot, thr.val[t].ret)]
    /\ thr' = [thr EXCEPT !.pc[t] = "done",
                          !.lock = IF @ = t THEN "free" ELSE @]
    /\ UNCHANGED <<inp, minimal, bld, last, fetched, seen, hist, zone, e2e>>

\* One instance with an occupied basement and attic at a geometry where an
\* attic candidate can be rejected; two threads about to read the same
\* slot, under either form of cached_property.
ThreadInit ==
    /\ inp \in {UseRow(10, f, "occupied_conditioned", "occupied_conditioned") :
                    f \in {1, 3}}
    /\ minimal = <<>>
    /\ bld = [i \in {"a"} |-> GisArgs(inp)]
    /\ cache = [i \in Inst |-> <<>>]
    /\ last = NoCall
    /\ NothingObserved
    /\ zone = None
    /\ e2e = None
    /\ \E slot \in {"basement_use_fraction", "attic_use_fraction", "attic_height"},
          lock \in {"absent", "free"} :
          thr = [slot |-> slot, lock |-> lock,
                 pc |-> [t \in Threads |-> "start"],
                 val |-> [t \in Threads |-> Outcome(None, "", 0)],
                 bodies |-> 0]

ThreadNext ==
    \/ \E t \in Threads : ThreadLookup(t)
    \/ \E t \in Threads : ThreadAcquire(t)
    \/ \E t \in Threads : ThreadRunBody(t)
    \/ \E t \in Threads : ThreadStore(t)

ThreadSpec == ThreadInit /\ [][ThreadNext]_vars

----------------------------------------------------------------------------
(* The polling loop of the e2e command (src/src/globi/tools/cli/main.py).   *)
(* Time is counted in seconds of time.monotonic(), starting at 0 when the   *)
(* deadline is set.                                                         *)

\* The --poll-timeout and --poll-interval values tried, in seconds.
PollTimeouts == {-1, 0, 4, 6}

PollIntervals == {-1, 0, 1, 3}

\* The seconds one hatchet.runs.get_status call can take.
Latencies == {1, 2}

\* V1TaskStatus
V1TaskStatus == {"QUEUED", "RUNNING", "COMPLETED", "CANCELLED", "FAILED"}

\* (a cancelled run taken for a success)
exit_code_cancelled_is_success(status) ==
    IF status \in {"COMPLETED", "CANCELLED"} THEN Val(0)
    ELSE IF status = "FAILED" THEN Val(1)
    ELSE None

\* The argument of the sys.exit a polled status leads to, None when the
\* loop goes on.
exit_code(status) ==
    IF status = "COMPLETED" THEN Val(0)
    ELSE IF status \in {"FAILED", "CANCELLED"} THEN Val(1)
    ELSE None

\* deadline = time.monotonic() + poll_timeout
E2EInit ==
    /\ inp = UseRow(10, 3, "none", "none")
    /\ minimal = <<>>
    /\ bld = <<>>
    /\ cache = [i \in Inst |-> <<>>]
    /\ last = NoCall
    /\ NothingObserved
    /\ zone = None
    /\ thr = None
    /\ \E timeout \in PollTimeouts, interval \in PollIntervals :
          e2e = [poll_timeout |-> timeout, poll_interval |-> interval,
                 now |-> 0, deadline |-> 0 + timeout,
                 pc |-> "while", status |-> "", polls |-> 0, exit |-> None]

\* while time.monotonic() < deadline: ... else the timeout is logged and
\* sys.exit(1)
E2EWhile ==
    /\ e2e.pc = "while"
    /\ IF e2e.now < e2e.deadline
       THEN e2e' = [e2e EXCEPT !.pc = "poll"]
       ELSE e2e' = [e2e EXCEPT !.pc = "exited", !.exit = Val(1)]
    /\ UNCHANGED <<inp, minimal, bld, cache, last, fetched, seen, hist, zone, thr>>

\* status = hatchet.runs.get_status(workflow_run_id) and the two tests of
\* the status; a call that raises ends the command with exit status 1.
E2EPoll ==
    /\ e2e.pc = "poll"
    /\ \E latency \in Latencies, status \in V1TaskStatus \cup {"raised"} :
          LET code == IF status = "raised" THEN Val(1) ELSE exit_code(status)
          IN  e2e' = [e2e EXCEPT !.now = @ + latency,
                                 !.status = status,
                                 !.polls = @ + 1,
                                 !.pc = IF code = None THEN "sleep" ELSE "exited",
                                 !.exit = code]
    /\ UNCHANGED <<inp, minimal, bld, cache, last, fetched, seen, hist, zone, thr>>

\* time.sleep(poll_interval); a negative interval makes time.sleep raise
\* ValueError, which ends the command with exit status 1.
E2ESleep ==
    /\ e2e.pc = "sleep"
    /\ IF e2e.poll_interval < 0
       THEN e2e' = [e2e EXCEPT !.pc = "exited", !.exit = Val(1), !.status = "raised"]
       ELSE e2e' = [e2e EXCEPT !.now = @ + e2e.poll_interval, !.pc = "while"]
    /\ UNCHANGED <<inp, minimal, bld, cache, last, fetched, seen, hist, zone, thr>>

E2ENext ==
    \/ E2EWhile
    \/ E2EPoll
    \/ E2ESleep

\* The command keeps running while it can: a call that was made returns
\* or raises, and a sleep ends.
E2ESpec == E2EInit /\ [][E2ENext]_vars /\ WF_vars(E2ENext)

----------------------------------------------------------------------------
(* Claims C1..C10 *)

\* The last call was a projection m.globi_spec that returned an instance.
Projected == last.op = "globi_spec" /\ last.raised = ""

\* The last call was a direct construction GloBIBuildingSpec(**row).
Constructing == last.op = "GloBIBuildingSpec"

\* No instance holds the fields of the row: the construction made none.
NoneConstructed == \A j \in DOMAIN bld : bld[j] # GisArgs(inp)

\* C1: every accepted MinimalBuildingSpec has length >= width, its length the
\* larger and its width the smaller of the two inputs, and the spec projected
\* from it has long_edge = max(length, width), short_edge = min(length, width).
C1_LengthWidthOrdered ==
    /\ minimal # <<>> =>
          /\ minimal[1].length >= minimal[1].width
          /\ minimal[1].length = Max(inp.length, inp.width)
          /\ minimal[1].width = Min(inp.length, inp.width)
    /\ Projected =>
          /\ bld[last.inst].long_edge = Max(inp.length, inp.width)
          /\ bld[last.inst].short_edge = Min(inp.length, inp.width)

\* C1 witness: a row with length < width was accepted, swapped and projected.
C1_SwappedAndProjected ==
    /\ Projected
    /\ inp.length < inp.width
    /\ minimal[1].length = inp.width
    /\ bld[last.inst].long_edge = inp.width

\* C2: whatever the inputs, the spec globi_spec yields has long_edge_angle 0,
\* rotated_rectangle_area_ratio exactly 1, three empty neighbor lists,
\* sort_index 0, building_id "placeholder", experiment_id
\* "MinimalBuildingSpec" and the rectangle (0,0),(length,0),(length,width),
\* (0,width),(0,0).
C2_ProjectionFixedFields ==
    Projected =>
        LET b == bld[last.inst]
            m == minimal[1]
        IN  /\ b.long_edge_angle = 0
            /\ b.rotated_rectangle_area_ratio = <<1, 1>>
            /\ b.neighbor_polys = <<>>
            /\ b.neighbor_heights = <<>>
            /\ b.neighbor_floors = <<>>
            /\ b.sort_index = 0
            /\ b.building_id = "placeholder"
            /\ b.experiment_id = "MinimalBuildingSpec"
            /\ b.rotated_rectangle =
                 << <<0, 0>>, <<m.length, 0>>, <<m.length, m.width>>,
                    <<0, m.width>>, <<0, 0>> >>

\* C2 witness: a projection of a spec that is not square, beside an instance
\* built from GIS fields, which has neighbors and another angle.
C2_ProjectedOblong ==
    /\ Projected
    /\ minimal[1].length > minimal[1].width
    /\ \E j \in DOMAIN bld : j # last.inst /\ bld[j].long_edge_angle # 0

\* C3: with basement none and attic none the projected spec has long_edge =
\* length, short_edge = width, height = num_floors * f2f_height, aspect_ratio
\* = length / width, an unoccupied basement, and both energy-model areas =
\* num_floors * length * width; 15, 10, 2 floors of 3 give 6, 3/2 and 300.
C3_PlainProjection ==
    (Projected /\ minimal[1].basement = "none" /\ minimal[1].attic = "none") =>
        LET b == bld[last.inst]
            m == minimal[1]
        IN  /\ b.long_edge = m.length
            /\ b.short_edge = m.width
            /\ b.height = m.num_floors * m.f2f_height
            /\ b.aspect_ratio[1] * m.width = b.aspect_ratio[2] * m.length
            /\ ~basement_is_occupied(b)
            /\ energy_model_conditioned_area(b) = m.num_floors * m.length * m.width
            /\ energy_model_occupied_area(b) = m.num_floors * m.length * m.width
            /\ (m.length = 15 /\ m.width = 10 /\ m.num_floors = 2 /\ m.f2f_height = 3) =>
                  /\ b.long_edge = 15
                  /\ b.short_edge = 10
                  /\ b.height = 6
                  /\ b.aspect_ratio = <<3, 2>>
                  /\ energy_model_conditioned_area(b) = 300
                  /\ energy_model_occupied_area(b) = 300

\* C3 witness: the spec's example, 15 by 10, 2 floors of 3, wwr 0.2, projected.
C3_ExampleProjected ==
    /\ Projected
    /\ inp.length = 15 /\ inp.width = 10 /\ inp.num_floors = 2
    /\ inp.f2f_height = 3 /\ inp.wwr = 2
    /\ inp.basement = "none" /\ inp.attic = "none"

\* C4: every constructed GloBIBuildingSpec has 0 <= wwr <= 1, and a
\* construction with wwr outside [0, 1] raises a ValidationError naming wwr
\* and makes no instance.
C4_WwrBounded ==
    /\ \A i \in DOMAIN bld : bld[i].wwr >= 0 /\ bld[i].wwr <= 10
    /\ (Constructing /\ (inp.wwr < 0 \/ inp.wwr > 10)) =>
          /\ last.raised = "ValidationError"
          /\ "wwr" \in last.fields
          /\ NoneConstructed

\* C4 witness: a construction with wwr = 1.5 was refused.
C4_WwrTooLargeRefused ==
    Constructing /\ inp.wwr = 15 /\ last.raised = "ValidationError"

\* C5: every constructed GloBIBuildingSpec has neighbor_polys,
\* neighbor_heights and neighbor_floors of one length (a construction with
\* lists of different lengths is refused).
C5_NeighborListsAligned ==
    \A i \in DOMAIN bld :
        /\ Len(bld[i].neighbor_polys) = Len(bld[i].neighbor_heights)
        /\ Len(bld[i].neighbor_heights) = Len(bld[i].neighbor_floors)

\* C6: every constructed GloBIBuildingSpec with a basement has
\* 0 < exposed_basement_frac < 1, and a construction with a basement and
\* exposed_basement_frac <= 0 or >= 1 raises a ValidationError naming the
\* field and makes no instance.
C6_BasementFracOpenInterval ==
    /\ \A i \in DOMAIN bld :
          bld[i].basement # "none" =>
              bld[i].exposed_basement_frac > 0 /\ bld[i].exposed_basement_frac < 100
    /\ (/\ Constructing
        /\ inp.basement # "none"
        /\ (inp.exposed_basement_frac <= 0 \/ inp.exposed_basement_frac >= 100)) =>
          /\ last.raised = "ValidationError"
          /\ "exposed_basement_frac" \in last.fields
          /\ NoneConstructed

\* C6 witness: a construction with a basement and exposed_basement_frac = 1,
\* every other field valid, was refused.
C6_FullyExposedBasementRefused ==
    /\ Constructing
    /\ inp.basement # "none"
    /\ inp.exposed_basement_frac = 100
    /\ last.fields = {"exposed_basement_frac"}

\* C7: every GloBIBuildingSpec instance, projected or constructed from GIS
\* fields, has long_edge >= short_edge.
C7_LongEdgeIsLonger ==
    \A i \in DOMAIN bld : bld[i].long_edge >= bld[i].short_edge

\* C8: every constructed GloBIBuildingSpec has num_floors, height and
\* f2f_height >= 0, and a construction raises a ValidationError that names
\* each of the three that is negative, and no other of the three, making no
\* instance.
C8_NonNegativeFields ==
    /\ \A i \in DOMAIN bld :
          bld[i].num_floors >= 0 /\ bld[i].height >= 0 /\ bld[i].f2f_height >= 0
    /\ Constructing =>
          /\ ("num_floors" \in last.fields) <=> (inp.num_floors < 0)
          /\ ("height" \in last.fields) <=> (inp.height < 0)
          /\ ("f2f_height" \in last.fields) <=> (inp.f2f_height < 0)
          /\ (inp.num_floors < 0 \/ inp.height < 0 \/ inp.f2f_height < 0) =>
                last.raised = "ValidationError" /\ NoneConstructed

\* C8 witness: a construction whose only fault is num_floors = -1 was refused.
C8_NegativeFloorsRefused ==
    /\ Constructing
    /\ inp.num_floors < 0
    /\ last.raised = "ValidationError"
    /\ last.fields = {"num_floors"}

\* A use fraction v of a space with the given status: 0 for a status outside
\* OccupiedOptions, and for one inside 0.2 <= v < 0.6.
UseFractionOf(status, v) ==
    IF status \in OccupiedOptions THEN v >= 20 /\ v < 60 ELSE v = 0

\* C9: basement_use_fraction and attic_use_fraction, as returned and as
\* stored on the instance, are 0 for a status outside OccupiedOptions and
\* otherwise lie in [0.2, 0.6).
C9_UseFractionByOccupation ==
    /\ \A i \in DOMAIN bld :
          /\ "basement_use_fraction" \in DOMAIN cache[i] =>
                UseFractionOf(bld[i].basement, cache[i]["basement_use_fraction"][1])
          /\ "attic_use_fraction" \in DOMAIN cache[i] =>
                UseFractionOf(bld[i].attic, cache[i]["attic_use_fraction"][1])
    /\ last.op = "basement_use_fraction" =>
          UseFractionOf(bld[last.inst].basement, last.ret[1])
    /\ last.op = "attic_use_fraction" =>
          UseFractionOf(bld[last.inst].attic, last.ret[1])

\* C9 witness: an occupied basement read as 0.59 and, on the same instance,
\* an unoccupied attic read as 0.
C9_OccupiedAndUnoccupiedRead ==
    /\ last.op = "attic_use_fraction"
    /\ bld[last.inst].basement \in OccupiedOptions
    /\ bld[last.inst].attic \notin OccupiedOptions
    /\ bld[last.inst].attic # "none"
    /\ "basement_use_fraction" \in DOMAIN cache[last.inst]
    /\ cache[last.inst]["basement_use_fraction"] = Val(59)
    /\ last.ret = Val(0)

MemoisedSlots == {"basement_use_fraction", "attic_use_fraction", "attic_height"}

\* C10 as stated: no read of basement_use_fraction, attic_use_fraction or
\* attic_height draws more than one random sample.
C10_OneDrawPerSlot ==
    last.op \in MemoisedSlots => last.draws <= 1

\* One step of an instance's memoised slots.
C10_Step ==
    \A i \in Inst, s \in MemoisedSlots :
        LET read == last'.op = s /\ last'.inst = i
        IN  /\ s \in DOMAIN cache[i] =>
                  /\ s \in DOMAIN cache'[i]
                  /\ cache'[i][s] = cache[i][s]
                  /\ read => /\ last'.raised = ""
                             /\ last'.ret = cache[i][s]
                             /\ last'.draws = 0
            /\ (s \notin DOMAIN cache[i] /\ read /\ last'.raised = "") =>
                  /\ s \in DOMAIN cache'[i]
                  /\ cache'[i][s] = last'.ret
            /\ (s \notin DOMAIN cache[i] /\ read) =>
                  IF s = "attic_height"
                  THEN last'.draws <= Attempts
                  ELSE last'.draws <= 1 /\ last'.raised = ""
            /\ read => \A j \in Inst \ {i} : cache'[j] = cache[j]

\* C10 (amended): on one instance a value a read has returned is stored, and
\* every later read of that slot returns the stored value without drawing
\* and without raising; the first read of a use fraction draws at most once,
\* a read of attic_height that finds nothing stored draws at most 20 times;
\* a read on one instance leaves the other instance's stored values alone.
C10_MemoisedReads == [][C10_Step]_vars

\* C10 witness: two instances constructed from equal inputs hold different
\* basement_use_fraction values, and the last read returned a stored value.
C10_EqualInputsDifferentDraws ==
    /\ bld["a"] = bld["b"]
    /\ "basement_use_fraction" \in DOMAIN cache["a"]
    /\ "basement_use_fraction" \in DOMAIN cache["b"]
    /\ cache["a"]["basement_use_fraction"] # cache["b"]["basement_use_fraction"]
    /\ last.op = "basement_use_fraction"
    /\ last.draws = 0
    /\ last.ret = Val(20)

----------------------------------------------------------------------------
(* Claims C11..C20 *)

\* The rise-over-run ratios, in twelfths, the attic of b may be given:
\* [6/12, 9/12) when it is occupied or conditioned, [4/12, 6/12) otherwise.
RatioRange(b) ==
    IF b.attic \in OccupiedOptions \cup ConditionedOptions THEN 6..8 ELSE 4..5

\* v, None or a height in 1/24 m, is a height of at most 2.5 * f2f_height
\* that is (short_edge / 2) times a ratio between 4/12 and 9/12.
WithinLimit(b, v) ==
    /\ v # None
    /\ v[1] <= b.f2f_height * 60
    /\ \E r \in 4..8 : v[1] = b.short_edge * r

\* C11: the attic height of a building with an attic, as returned by a read
\* and as kept by the instance, is at most 2.5 * f2f_height and is
\* (short_edge / 2) times a drawn ratio; no candidate above 2.5 * f2f_height
\* is returned.
C11_AtticHeightWithinLimit ==
    \A i \in DOMAIN bld :
        has_attic(bld[i]) =>
            /\ "attic_height" \in DOMAIN cache[i] =>
                    WithinLimit(bld[i], cache[i]["attic_height"])
            /\ (last.op = "attic_height" /\ last.inst = i /\ last.raised = "") =>
                    WithinLimit(bld[i], last.ret)

\* C11 witness: a read that rejected a candidate and then returned a height
\* that is exactly 2.5 * f2f_height.
C11_AcceptedAfterRejection ==
    /\ last.op = "attic_height" /\ last.raised = "" /\ last.draws >= 2
    /\ last.ret = Val(bld[last.inst].f2f_height * 60)

\* C12: a read of attic_height draws at most 20 times and stops at the first
\* accepted draw (one draw where every ratio is acceptable); where every
\* ratio is rejected it raises ValueError after exactly 20 draws, returns
\* nothing and the instance keeps no height.
C12_TwentyAttemptsThenError ==
    last.op = "attic_height" =>
        LET b == bld[last.inst]
            accepted == {r \in RatioRange(b) : b.short_edge * r <= b.f2f_height * 60}
        IN  /\ last.draws <= Attempts
            /\ last.raised \in {"", "ValueError"}
            /\ last.raised = "ValueError" =>
                  /\ last.draws = Attempts
                  /\ last.ret = None
                  /\ "attic_height" \notin DOMAIN cache[last.inst]
            /\ last.raised = "" =>
                  /\ accepted # {} \/ ~has_attic(b)
                  /\ "attic_height" \in DOMAIN cache[last.inst]
                  /\ cache[last.inst]["attic_height"] = last.ret
            /\ (accepted = RatioRange(b) /\ has_attic(b)) => last.draws <= 1
            /\ (accepted = {} /\ has_attic(b)) => last.raised = "ValueError"

\* C12 witness: a read whose 20 draws were all rejected.
C12_RaisedAfterTwenty ==
    /\ last.op = "attic_height" /\ last.raised = "ValueError"
    /\ last.draws = Attempts

\* C13: the ratio of a returned attic height, first draw or retry, is in
\* [6/12, 9/12) when the attic is occupied or conditioned and in
\* [4/12, 6/12) when it is neither.
C13_RatioRangeByStatus ==
    \A i \in DOMAIN bld :
        (has_attic(bld[i]) /\ last.op = "attic_height" /\ last.inst = i
            /\ last.raised = "") =>
                \E r \in RatioRange(bld[i]) : last.ret = Val(bld[i].short_edge * r)

\* C13 witness: a conditioned attic whose height was accepted on a retry.
C13_ConditionedAtticRetried ==
    /\ last.op = "attic_height" /\ last.raised = "" /\ last.draws >= 2
    /\ bld[last.inst].attic = "unoccupied_conditioned"
    /\ last.ret = Val(bld[last.inst].short_edge * 6)

\* The last call was a read of i.feature_dict that returned a mapping.
FeaturesReturned(i) ==
    last.op = "feature_dict" /\ last.inst = i /\ last.raised = ""

\* C14: attic_height is None exactly when the attic status is none, and is
\* then found without a draw; feature.geometry.attic_height is 0 in that
\* case and the attic height the instance resolved otherwise.
C14_NoAtticNoHeight ==
    \A i \in DOMAIN bld :
        LET b == bld[i] IN
        /\ "attic_height" \in DOMAIN cache[i] =>
                (cache[i]["attic_height"] = None <=> b.attic = "none")
        /\ (last.op = "attic_height" /\ last.inst = i /\ last.raised = "") =>
                /\ last.ret = None <=> b.attic = "none"
                /\ b.attic = "none" => last.draws = 0
        /\ (last.op = "attic_height" /\ last.inst = i) =>
                (b.attic = "none" => last.raised = "")
        /\ FeaturesReturned(i) =>
                /\ "attic_height" \in DOMAIN cache[i]
                /\ last.ret[1][<<"feature.geometry.attic_height">>] =
                        IF b.attic = "none" THEN 0 ELSE cache[i]["attic_height"][1]
                /\ b.attic # "none" =>
                        last.ret[1][<<"feature.geometry.attic_height">>] > 0

\* C14 witness: feature_dict read on a building without an attic, its
\* attic_height entry None.
C14_FeaturesWithoutAttic ==
    /\ FeaturesReturned("a")
    /\ bld["a"].attic = "none"
    /\ cache["a"]["attic_height"] = None
    /\ last.ret[1][<<"feature.geometry.attic_height">>] = 0

\* C15: the zoning feature is "core/perim" exactly when long_edge > 15 and
\* short_edge > 15, and "by_storey" otherwise: 16 by 16 is core/perim, 15
\* by 16 and 16 by 15 are by_storey.
C15_ZoningStrictlyAboveFifteen ==
    \A i \in DOMAIN bld :
        LET b == bld[i]
            zoning == use_core_perim_zoning(b)
        IN  /\ zoning \in {"core/perim", "by_storey"}
            /\ zoning = "core/perim" <=> (b.long_edge > 15 /\ b.short_edge > 15)
            /\ (b.long_edge = 16 /\ b.short_edge = 16) => zoning = "core/perim"
            /\ (b.long_edge = 15 /\ b.short_edge = 16) => zoning = "by_storey"
            /\ (b.long_edge = 16 /\ b.short_edge = 15) => zoning = "by_storey"
            /\ FeaturesReturned(i) =>
                    last.ret[1][<<"feature.geometry.zoning">>] = zoning

\* C15 witness: feature_dict read on a building of 16 by 15.
C15_SixteenByFifteen ==
    /\ FeaturesReturned("a")
    /\ bld["a"].long_edge = 16 /\ bld["a"].short_edge = 15
    /\ last.ret[1][<<"feature.geometry.zoning">>] = "by_storey"

\* 1 when the status s is in the set of options, else 0.
OneIf(s, options) == IF s \in options THEN 1 ELSE 0

GeometryKeys ==
    { <<"feature.geometry.long_edge">>, <<"feature.geometry.short_edge">>,
      <<"feature.geometry.orientation">>, <<"feature.geometry.orientation.cos">>,
      <<"feature.geometry.orientation.sin">>, <<"feature.geometry.aspect_ratio">>,
      <<"feature.geometry.wwr">>, <<"feature.geometry.num_floors">>,
      <<"feature.geometry.f2f_height">>, <<"feature.geometry.zoning">>,
      <<"feature.geometry.energy_model_conditioned_area">>,
      <<"feature.geometry.energy_model_occupied_area">>,
      <<"feature.geometry.attic_height">>,
      <<"feature.geometry.exposed_basement_frac">> }

\* feature.geometry.shading_mask_00 to feature.geometry.shading_mask_47.
ShadingKeys ==
    { <<"feature.geometry.shading_mask_", tens, units>> :
        tens \in {"0", "1", "2", "3"},
        units \in {"0", "1", "2", "3", "4", "5", "6", "7", "8", "9"} }
    \cup { <<"feature.geometry.shading_mask_", "4", units>> :
             units \in {"0", "1", "2", "3", "4", "5", "6", "7"} }

\* The 8 feature.extra_spaces keys.
ExtraSpaceKeys ==
    { <<"feature.extra_spaces.", space, entry>> :
        space \in {"basement", "attic"},
        entry \in {".exists", ".occupied", ".conditioned", ".use_fraction"} }

\* The keys that do not depend on the semantic context.
FixedKeys ==
    GeometryKeys \cup ShadingKeys \cup {<<"feature.weather.file">>} \cup ExtraSpaceKeys

\* C17: the keys of a returned feature_dict are exactly the 14 geometry
\* keys, the 48 shading mask keys 00 to 47, feature.weather.file, the 8
\* extra_spaces keys and one feature.semantic key per key of
\* semantic_field_context; no semantic entry replaces a fixed one.
C17_FeatureKeySet ==
    \A i \in DOMAIN bld :
        FeaturesReturned(i) =>
            LET b == bld[i]
                features == last.ret[1]
                semantic == {<<"feature.semantic.", name>> :
                                name \in DOMAIN b.semantic_field_context}
            IN  /\ DOMAIN features = FixedKeys \cup semantic
                /\ Cardinality(GeometryKeys) = 14
                /\ Cardinality(ShadingKeys) = 48
                /\ Cardinality(ExtraSpaceKeys) = 8
                /\ Cardinality(DOMAIN features)
                      = 14 + 48 + 1 + 8 + Cardinality(DOMAIN b.semantic_field_context)
                /\ FixedKeys \cap semantic = {}
                /\ \A name \in DOMAIN b.semantic_field_context :
                      features[<<"feature.semantic.", name>>]
                          = b.semantic_field_context[name]
                /\ features[<<"feature.geometry.long_edge">>] = b.long_edge

\* C17 witness: feature_dict read on a building whose semantic context has
\* a field named like a geometry feature: 73 keys.
C17_SemanticFieldNamedLongEdge ==
    /\ FeaturesReturned("a")
    /\ "long_edge" \in DOMAIN bld["a"].semantic_field_context
    /\ Cardinality(DOMAIN last.ret[1]) = 73

\* C18: in a returned feature_dict the exists, occupied and conditioned
\* entries of basement and attic are the strings "Yes" or "No": exists is
\* "Yes" exactly when the status is not none, occupied exactly when it is in
\* OccupiedOptions, conditioned exactly when it is in ConditionedOptions;
\* use_fraction is the use fraction the instance keeps.
C18_ExtraSpaceEntries ==
    \A i \in DOMAIN bld :
        FeaturesReturned(i) =>
            \A space \in {"basement", "attic"} :
                LET features == last.ret[1]
                    status == bld[i][space]
                    entry(e) == features[<<"feature.extra_spaces.", space, e>>]
                    slot == IF space = "basement" THEN "basement_use_fraction"
                                                  ELSE "attic_use_fraction"
                IN  /\ entry(".exists") \in {"Yes", "No"}
                    /\ entry(".occupied") \in {"Yes", "No"}
                    /\ entry(".conditioned") \in {"Yes", "No"}
                    /\ entry(".exists") = "Yes" <=> status # "none"
                    /\ entry(".occupied") = "Yes" <=> status \in OccupiedOptions
                    /\ entry(".conditioned") = "Yes" <=> status \in ConditionedOptions
                    /\ slot \in DOMAIN cache[i]
                    /\ Val(entry(".use_fraction")) = cache[i][slot]

\* C18 witness: feature_dict read on a building with an occupied,
\* unconditioned basement and no attic, the basement's use fraction drawn.
C18_OccupiedBasementNoAttic ==
    /\ FeaturesReturned("a")
    /\ bld["a"].basement = "occupied_unconditioned" /\ bld["a"].attic = "none"
    /\ last.ret[1][<<"feature.extra_spaces.", "basement", ".occupied">>] = "Yes"
    /\ last.ret[1][<<"feature.extra_spaces.", "basement", ".conditioned">>] = "No"
    /\ last.ret[1][<<"feature.extra_spaces.", "attic", ".exists">>] = "No"
    /\ last.ret[1][<<"feature.extra_spaces.", "basement", ".use_fraction">>] > 0

\* C19: all the reads of feature_dict on one instance that returned gave
\* equal mappings, the drawn use fractions and attic height included.
C19_RepeatedReadsEqual ==
    \A i \in DOMAIN bld :
        \A j, k \in 1..Len(seen[i]) : seen[i][j] = seen[i][k]

\* C19 witness: two reads returned on a building whose two use fractions
\* and attic height are drawn, at a geometry where a candidate height can
\* be rejected; the second read drew nothing.
C19_TwoReadsOfDrawnFeatures ==
    /\ Len(seen["a"]) = 2
    /\ basement_is_occupied(bld["a"]) /\ attic_is_occupied(bld["a"])
    /\ bld["a"].short_edge = 10 /\ bld["a"].f2f_height = 1
    /\ last.op = "feature_dict" /\ last.raised = "" /\ last.draws = 0

\* C20: with a remote epwzip_file an instance's weather archive is fetched
\* at most once, however many feature_dict reads follow: once a read has
\* returned, exactly one fetch has been made and every read reported the
\* stem of the path the instance keeps; a local epwzip_file is never
\* fetched.
C20_WeatherFetchedOnce ==
    \A i \in DOMAIN bld :
        /\ fetched[i]["epwzip_file"] <= 1
        /\ bld[i].epwzip_file.kind = "Path" => fetched[i]["epwzip_file"] = 0
        /\ (bld[i].epwzip_file.kind = "Uri" /\ Len(seen[i]) >= 1) =>
                fetched[i]["epwzip_file"] = 1
        /\ Len(seen[i]) >= 1 => "epwzip_path" \in DOMAIN cache[i]
        /\ \A j \in 1..Len(seen[i]) :
                seen[i][j][<<"feature.weather.file">>] = cache[i]["epwzip_path"][1].stem

\* C20 witness: two reads returned with a remote archive, one fetch made.
C20_TwoReadsOneFetch ==
    /\ Len(seen["a"]) = 2
    /\ bld["a"].epwzip_file.kind = "Uri"
    /\ fetched["a"]["epwzip_file"] = 1
    /\ last.op = "feature_dict" /\ last.raised = ""

----------------------------------------------------------------------------
(* Claims C21..C30 *)

\* C25: every error raised for a building, the attic height error in
\* particular, carries the building_id or the experiment_id of the
\* building.  (The ValueError of attic_height has a fixed message and no
\* other argument: the call record's fields, the names an exception
\* carries, are empty for it.)
C25_ErrorsCarryBuildingId ==
    (last.op = "attic_height" /\ last.raised # "") =>
        {bld[last.inst].building_id, bld[last.inst].experiment_id} \cap last.fields # {}

\* C27: the projection globi_spec of a validated MinimalBuildingSpec
\* returns an instance, at the boundary values too (exposed_basement_frac 0
\* and 1, wwr 0 and 1, f2f_height 0).
C27_ProjectionNeverRefused ==
    last.op = "globi_spec" => last.raised = ""

\* C28: exposed_basement_frac is checked whatever the basement status: a
\* construction with exposed_basement_frac 0 or 1 (or outside) is refused
\* with a ValidationError naming the field, with basement none as with a
\* basement, and every instance has it strictly between 0 and 1.
C28_BasementFracCheckedWithoutBasement ==
    /\ \A i \in DOMAIN bld :
          bld[i].exposed_basement_frac > 0 /\ bld[i].exposed_basement_frac < 100
    /\ (/\ Constructing
        /\ (inp.exposed_basement_frac <= 0 \/ inp.exposed_basement_frac >= 100)) =>
          /\ last.raised = "ValidationError"
          /\ "exposed_basement_frac" \in last.fields
          /\ NoneConstructed

\* C28 witness: a construction without a basement and exposed_basement_frac
\* = 0, every other field valid, was refused.
C28_NoBasementZeroFracRefused ==
    /\ Constructing
    /\ inp.basement = "none"
    /\ inp.exposed_basement_frac = 0
    /\ last.fields = {"exposed_basement_frac"}

\* The step is a read of attic_height on i, direct or through feature_dict.
AtticHeightResolved(i) ==
    last'.op \in {"attic_height", "feature_dict"} /\ last'.inst = i

\* What C29 asks of one step.
C29_Step ==
    \A i \in DOMAIN bld :
        /\ (last.inst = i /\ last.raised = "ValueError") =>
                "attic_height" \notin DOMAIN cache[i]
        /\ (/\ AtticHeightResolved(i)
            /\ "attic_height" \notin DOMAIN cache[i]
            /\ has_attic(bld[i])) =>
                /\ last'.draws >= 1
                /\ last'.raised = "ValueError" =>
                        last'.draws = Attempts /\ "attic_height" \notin DOMAIN cache'[i]
        /\ (AtticHeightResolved(i) /\ "attic_height" \in DOMAIN cache[i]) =>
                /\ last'.raised # "ValueError"
                /\ cache'[i]["attic_height"] = cache[i]["attic_height"]
                /\ last'.op = "attic_height" =>
                        /\ last'.raised = ""
                        /\ last'.draws = 0
                        /\ last'.ret = cache[i]["attic_height"]

\* C29: an attic_height that raised stores nothing: the next read, direct
\* or through feature_dict, draws afresh, up to 20 times, and can return;
\* once a height is stored, no read draws for it again, raises ValueError
\* or changes it.
C29_FailureNotMemoised == [][C29_Step]_vars

\* C29 witness: attic_height raised on the instance and a later direct
\* read drew again and returned a height, now stored.
C29_ReturnedAfterRaising ==
    /\ "ValueError" \in hist["a"]
    /\ last.op = "attic_height" /\ last.inst = "a" /\ last.raised = ""
    /\ last.draws >= 1
    /\ cache["a"]["attic_height"] = last.ret

\* C21: on one instance each remote file (component database, component
\* map, semantic fields, weather archive) is fetched at most once over any
\* sequence of construct_zone_def and feature_dict calls.
C21_EachFileFetchedOnce ==
    \A i \in DOMAIN bld : \A f \in FileFields : fetched[i][f] <= 1

\* The step is a call of construct_zone_def that got as far as the
\* database settings.
ZoneLookedUp == last'.op = "construct_zone_def" /\ zone'.settings # zone.settings

\* What C22 asks of one step.
C22_Step ==
    /\ (/\ last'.op = "construct_zone_def" /\ last'.raised \in {"", "LookupError"}
        /\ zone'.version = zone.version /\ last' # last) => ZoneLookedUp
    /\ ZoneLookedUp =>
          /\ zone'.settings = zone.settings + 1
          /\ zone'.settings \notin DOMAIN zone.handles
          /\ zone'.settings \in DOMAIN zone'.handles
          /\ zone'.handles[zone'.settings] = zone.version
          /\ last'.raised = "" =>
                last'.ret = Val([version |-> zone.version, settings |-> zone'.settings])

\* C22: every call of construct_zone_def that reaches the database makes
\* a new settings object, never one an earlier call connected, and looks
\* the components up through it: the zone it returns is built from the
\* content the database file has at the time of the call.
C22_FreshSettingsEveryCall == [][C22_Step]_vars

\* C22 witness: the file was replaced between two calls; the second call
\* used the second settings object and returned a zone from the new content.
C22_SecondCallSeesNewFile ==
    /\ zone.settings = 2
    /\ zone.handles[1] = 1 /\ zone.handles[2] = 2
    /\ last.op = "construct_zone_def"
    /\ last.ret = Val([version |-> 2, settings |-> 2])

\* C23: after any call of construct_zone_def, returned or raised, no
\* database connection is open and sys.stdout and sys.stderr are the
\* original streams.
C23_ConnectionClosedStreamsRestored ==
    /\ zone.conns = {}
    /\ zone.stdout = "original"
    /\ zone.stderr = "original"

\* C23 witness: a call whose lookup raised inside the with statement, in
\* the branch that redirects the streams.
C23_LookupRaisedWhileRedirected ==
    /\ last.op = "construct_zone_def" /\ last.raised = "LookupError"
    /\ ~zone.fileno
    /\ zone.settings \in DOMAIN zone.handles

\* C24: a call of construct_zone_def that finds no file at the database
\* path fails with the database-not-found condition: it stops there, makes
\* no settings object and connects to nothing.
C24_MissingDatabaseIsFatal ==
    (last.op = "construct_zone_def" /\ ~zone.exists /\ last.raised # "FetchError") =>
        /\ last.raised = "DatabaseNotFound"
        /\ zone.settings = 0
        /\ zone.handles = <<>>

\* C26: two threads that read the same memoised slot of one instance for
\* the first time at once make one computation of it, and all readers that
\* have returned hold the same value, the one the instance keeps.
C26_SlotComputedOnce ==
    /\ thr.bodies <= 1
    /\ \A t, u \in Threads :
          (thr.pc[t] = "done" /\ thr.pc[u] = "done"
              /\ thr.val[t].raised = "" /\ thr.val[u].raised = "") =>
                /\ thr.val[t].ret = thr.val[u].ret
                /\ thr.val[t].ret = cache["a"][thr.slot]

\* What C30 asks of every state of the command.
C30_Exits ==
    /\ e2e.pc = "exited" <=> e2e.exit # None
    /\ e2e.exit \in {None, Val(0), Val(1)}
    /\ e2e.exit = Val(0) <=> e2e.status = "COMPLETED"
    /\ e2e.status \in {"FAILED", "CANCELLED"} => e2e.exit = Val(1)
    /\ e2e.status \in {"COMPLETED", "FAILED", "CANCELLED"} => e2e.pc = "exited"
    /\ (e2e.exit = Val(1) /\ e2e.status \notin {"FAILED", "CANCELLED", "raised"}) =>
            e2e.now >= e2e.deadline
    /\ (e2e.pc = "exited" /\ e2e.status = "") => e2e.polls = 0
    /\ e2e.polls <= e2e.now

\* C30: the polling loop of e2e always ends: with exit code 0 exactly when
\* a poll reported COMPLETED, with 1 as soon as a poll reported FAILED or
\* CANCELLED, with 1 when the deadline has passed without a terminal
\* status; after a terminal status it does not poll again.
C30_PollingLoopTerminates == []C30_Exits /\ <>(e2e.pc = "exited")

\* C30 witness: the command polled three times or more, slept in between,
\* then saw COMPLETED and exited with 0.
C30_CompletedOnThirdPoll ==
    /\ e2e.pc = "exited" /\ e2e.exit = Val(0)
    /\ e2e.status = "COMPLETED"
    /\ e2e.polls >= 3

====
